---- MODULE Spec2Model ----
(***************************************************************************)
(* Model of the rate-limited LLM access layer of NB-takehome:              *)
(*   app/clients/rate_limiter.py  TokenTracker, RateLimiter,               *)
(*                                RateLimitedLLMClient                     *)
(*   app/clients/api_clients.py   BaseAPIClient._request_with_retry,       *)
(*                                LLMClient._get_openai_embeddings_batched *)
(*   app/main.py, app/app.py      generate_market_context and the stages   *)
(*                                of MarketContextPipeline.run             *)
(* asyncio is single-threaded and cooperative: a coroutine runs without    *)
(* interruption from one suspension point to the next, so each action      *)
(* below is the code between two suspension points.  An uncontended        *)
(* asyncio.Lock is taken without suspending, and no lock is ever held      *)
(* across an await, so the two locks never suspend anybody.                *)
(***************************************************************************)
EXTENDS Integers, Sequences, FiniteSets, TLC

VARIABLES
    config,          \* RateLimitConfig of the limiter
    now,             \* time.monotonic(), in seconds
    sem,             \* request_semaphore._value: free slots
    request_times,   \* RateLimiter.request_times (deque, oldest first)
    usage_history,   \* TokenTracker.usage_history: <<timestamp, tokens>>
    pending,         \* add_usage tasks created by release, not yet run
    pc,              \* per wrapper call: where it is suspended
    kind,            \* per wrapper call in progress: "generate" or "get_embeddings"
    est,             \* per wrapper call in progress: estimated_tokens
    wake,            \* per sleeping wrapper call: deadline of its asyncio.sleep
    last_exit,       \* how the wrapper call that ended last ended
    leaked,          \* history: calls that ended while holding their slot
    admitted,        \* history: <<time, estimated_tokens>> of every timestamp appended
    overlap,         \* history: two wrapper calls were in progress at once
    rq,              \* state of one _request_with_retry call
    lock_owner,      \* who holds RateLimiter.lock and TokenTracker.lock (0: free)
    last_error,      \* the error the raw client raised last and what the wrapper raised
    emb,             \* state of one _get_openai_embeddings_batched call
    app,             \* state of one POST /market-context request
    node             \* state of one node call, or of one MarketContextPipeline.run

vars == <<config, now, sem, request_times, usage_history, pending, pc, kind,
          est, wake, last_exit, leaked, admitted, overlap, rq, lock_owner,
          last_error, emb, app, node>>

----------------------------------------------------------------------------
(* Program constants, app/config.py *)

DEFAULT_WINDOW_SIZE == 60
DEFAULT_TOKEN_ESTIMATION_RATIO == 4
DEFAULT_SAFETY_MARGIN == 1

(* Bounds of the model *)

NumCalls == 3          \* wrapper calls made in one behaviour
TickStep == 60         \* seconds between two observed instants
MaxTime == 180         \* the clock stops here
MaxRetriesBound == 3   \* largest max_retries tried
MaxTexts == 4          \* longest list of texts embedded in one call
NumTextIds == 3        \* distinct texts to embed
MaxBatchSize == 3      \* largest batch_size tried

\* every wrapper call runs as a task of its own
Tasks == 1..NumCalls

\* RateLimitConfig values tried
Configs ==
    [requests_per_minute : {1, 2, 3},
     tokens_per_minute : {1000},
     max_concurrent_requests : {1, 2}]

\* len(system_prompt + user_prompt) of a generate call
PromptLens == {3, 1600}
\* len(result) of a successful raw generate
ResultLens == {0, 1603}
\* texts of a get_embeddings call, as the list of len(text)
TextLists == {<<801, 802>>}

----------------------------------------------------------------------------
(* Pure helpers *)

Max(a, b) == IF a >= b THEN a ELSE b

RECURSIVE SumSeq(_)
SumSeq(s) == IF s = <<>> THEN 0 ELSE Head(s) + SumSeq(Tail(s))

\* while self.request_times and self.request_times[0] < cutoff: popleft()
RECURSIVE PruneTimes(_, _)
PruneTimes(q, cutoff) ==
    IF q # <<>> /\ Head(q) < cutoff THEN PruneTimes(Tail(q), cutoff) ELSE q

\* while self.usage_history and self.usage_history[0][0] < cutoff: popleft()
RECURSIVE PruneUsage(_, _)
PruneUsage(h, cutoff) ==
    IF h # <<>> /\ Head(h)[1] < cutoff THEN PruneUsage(Tail(h), cutoff) ELSE h

\* TokenTracker.get_usage_in_window: sums the records with timestamp >= cutoff,
\* the ledger itself is left as it is
RECURSIVE SumInWindow(_, _)
SumInWindow(h, cutoff) ==
    IF h = <<>> THEN 0
    ELSE (IF Head(h)[1] >= cutoff THEN Head(h)[2] ELSE 0)
         + SumInWindow(Tail(h), cutoff)

get_usage_in_window(h, t) == SumInWindow(h, t - DEFAULT_WINDOW_SIZE)

\* a ledger write that is lost
add_usage_Lost(h, t, tokens) == h

\* a ledger that takes its new record at the head
add_usage_AtHead(h, t, tokens) ==
    PruneUsage(<<<<t, tokens>>>> \o h, t - DEFAULT_WINDOW_SIZE)

\* TokenTracker.add_usage: append, then prune from the head
add_usage(h, t, tokens) ==
    PruneUsage(Append(h, <<t, tokens>>), t - DEFAULT_WINDOW_SIZE)

\* a wait without the safety margin
RateWaitTime_NoMargin(t, oldest) == Max(0, DEFAULT_WINDOW_SIZE - (t - oldest))

\* wait_time of _wait_for_rate_limit when the window is full
RateWaitTime(t, oldest) ==
    Max(0, DEFAULT_WINDOW_SIZE - (t - oldest) + DEFAULT_SAFETY_MARGIN)

\* estimated_tokens of RateLimitedLLMClient.generate
GenerateEstimate(promptLen) == promptLen \div DEFAULT_TOKEN_ESTIMATION_RATIO

\* actual_tokens of RateLimitedLLMClient.generate
GenerateActual(resultLen, estimated) ==
    resultLen \div DEFAULT_TOKEN_ESTIMATION_RATIO + estimated

\* estimated_tokens of RateLimitedLLMClient.get_embeddings
EmbeddingsEstimate(texts) == SumSeq(texts) \div DEFAULT_TOKEN_ESTIMATION_RATIO

----------------------------------------------------------------------------
(* RateLimiter and RateLimitedLLMClient *)

Waiting == {"rpm_sleep", "rpm_yield", "tpm_sleep"}
\* the states in which a call holds the semaphore slot it took
Holding == Waiting \cup {"in_flight"}

TypeOK ==
    /\ config \in Configs
    /\ now \in 0..(MaxTime + TickStep)
    /\ sem \in Int
    /\ pc \in [Tasks -> {"new", "sem_wait", "done"} \cup Holding]
    /\ kind \in [Tasks -> {"generate", "get_embeddings"}]
    /\ last_exit \in {"none", "returned", "raised", "cancelled"}
    /\ leaked \in Nat
    /\ overlap \in BOOLEAN

\* rq while no request is being made
RqIdle == [state |-> "unused"]

\* emb while no embeddings call is being made
EmbIdle == [state |-> "unused"]

\* app while no HTTP request is being served
AppIdle == [state |-> "unused"]

\* node while no pipeline node is being run
NodeIdle == [state |-> "unused"]

\* both asyncio.Lock objects free: RateLimiter.lock and TokenTracker.lock
NoOwner == [rate |-> 0, ledger |-> 0]

\* last_error while the raw client has not raised
NoError == [raw |-> <<>>, out |-> <<>>]

\* the exceptions the raw client raises, as objects with an identity
Errors ==
    {[type |-> "HTTPStatusError", id |-> 1], [type |-> "ValueError", id |-> 2]}

\* leaving the "async with" blocks task t is in frees the locks it holds
Unlock(owner, t) ==
    [rate |-> IF owner.rate = t THEN 0 ELSE owner.rate,
     ledger |-> IF owner.ledger = t THEN 0 ELSE owner.ledger]

\* a wait that sleeps inside its "async with self.lock" block
LockAtSleep_Inside(t) == t

\* The owner of the lock when task t reaches the asyncio.sleep of an
\* admission wait: the "async with" block was left before, the lock is free.
LockAtSleep(t) == 0

Init ==
    /\ config \in Configs
    /\ now = 0
    /\ sem = config.max_concurrent_requests
    /\ request_times = <<>>
    /\ usage_history = <<>>
    /\ pending = <<>>
    /\ pc = [t \in Tasks |-> "new"]
    /\ kind = [t \in Tasks |-> "generate"]
    /\ est = [t \in Tasks |-> 0]
    /\ wake = [t \in Tasks |-> 0]
    /\ last_exit = "none"
    /\ leaked = 0
    /\ admitted = <<>>
    /\ overlap = FALSE
    /\ rq = RqIdle
    /\ lock_owner = NoOwner
    /\ last_error = NoError
    /\ emb = EmbIdle
    /\ app = AppIdle
    /\ node = NodeIdle

\* the window check admitting one request too many
RateAdmits_OffByOne(q) == Len(q) <= config.requests_per_minute

\* _wait_for_rate_limit: "if len(self.request_times) < requests_per_minute: return"
RateAdmits(q) == Len(q) < config.requests_per_minute

\* a token check that lets any estimate through once the ledger is empty
TokenAdmits_EmptyLedger(current_usage, estimated_tokens) ==
    \/ current_usage = 0
    \/ ~(current_usage + estimated_tokens > config.tokens_per_minute)

\* _wait_for_token_limit: the else branch of
\* "if current_usage + estimated_tokens > tokens_per_minute"
TokenAdmits(current_usage, estimated_tokens) ==
    ~(current_usage + estimated_tokens > config.tokens_per_minute)

\* an acquire that records its timestamp before the token check has passed
TokenCheckAndRecord_Early(t, e, q) ==
    /\ Unlock(lock_owner, t) = NoOwner
    /\ request_times' = Append(q, now)
    /\ admitted' = Append(admitted, <<now, e>>)
    /\ lock_owner' = NoOwner
    /\ IF TokenAdmits(get_usage_in_window(usage_history, now), e)
       THEN /\ pc' = [pc EXCEPT ![t] = "in_flight"]
            /\ wake' = [wake EXCEPT ![t] = 0]
       ELSE /\ pc' = [pc EXCEPT ![t] = "tpm_sleep"]
            /\ wake' = [wake EXCEPT ![t] = now + DEFAULT_WINDOW_SIZE]

\* acquire from the token check on: _wait_for_token_limit, then the append of
\* the timestamp.  q is request_times as the rate check left it.  Both locks
\* are taken on the way (get_usage_in_window, the append): a caller that finds
\* one owned by another task would suspend on it and does not go on.
TokenCheckAndRecord(t, e, q) ==
    /\ Unlock(lock_owner, t) = NoOwner
    /\ IF TokenAdmits(get_usage_in_window(usage_history, now), e)
       THEN /\ request_times' = Append(q, now)
            /\ admitted' = Append(admitted, <<now, e>>)
            /\ pc' = [pc EXCEPT ![t] = "in_flight"]
            /\ wake' = [wake EXCEPT ![t] = 0]
            /\ lock_owner' = NoOwner
       ELSE /\ request_times' = q
            /\ admitted' = admitted
            /\ pc' = [pc EXCEPT ![t] = "tpm_sleep"]
            /\ wake' = [wake EXCEPT ![t] = now + DEFAULT_WINDOW_SIZE]
            /\ lock_owner' = [NoOwner EXCEPT !.ledger = LockAtSleep(t)]

\* acquire from the rate check on: one pass of the loop of
\* _wait_for_rate_limit and, when it returns, the rest of acquire
RateCheckAndOn(t, e) ==
    LET q == PruneTimes(request_times, now - DEFAULT_WINDOW_SIZE) IN
    IF RateAdmits(q)
    THEN TokenCheckAndRecord(t, e, q)
    ELSE LET wait_time == RateWaitTime(now, Head(q)) IN
         /\ Unlock(lock_owner, t).rate = 0
         /\ lock_owner' = [Unlock(lock_owner, t) EXCEPT !.rate = LockAtSleep(t)]
         /\ request_times' = q
         /\ admitted' = admitted
         /\ pc' = [pc EXCEPT ![t] =
                      IF wait_time <= 0 THEN "rpm_yield" ELSE "rpm_sleep"]
         /\ wake' = [wake EXCEPT ![t] = now + wait_time]

\* a semaphore that lets every caller through
TakeSlot_NoLimit == sem' = sem - 1

\* "await self.request_semaphore.acquire()" returns
TakeSlot ==
    /\ sem > 0
    /\ sem' = sem - 1

\* a release that frees two slots
Release_Twice(actual_tokens) ==
    /\ sem' = sem + 2
    /\ pending' = IF actual_tokens > 0 THEN Append(pending, actual_tokens)
                  ELSE pending

\* a release that schedules a ledger write whatever the usage reported
Release_AlwaysRecords(actual_tokens) ==
    /\ sem' = sem + 1
    /\ pending' = Append(pending, actual_tokens)

\* RateLimiter.release
Release(actual_tokens) ==
    /\ sem' = sem + 1
    /\ pending' = IF actual_tokens > 0 THEN Append(pending, actual_tokens)
                  ELSE pending

\* the wrapper call of task t is over
Exit(t, how) ==
    /\ pc' = [pc EXCEPT ![t] = "done"]
    /\ kind' = [kind EXCEPT ![t] = "generate"]
    /\ est' = [est EXCEPT ![t] = 0]
    /\ wake' = [wake EXCEPT ![t] = 0]
    /\ last_exit' = how

\* A wrapper call starts: the estimate, then acquire up to its first
\* suspension.  Calls are numbered in the order they start.
StartCall(t, k, e) ==
    /\ pc[t] = "new"
    /\ \A u \in Tasks : u < t => pc[u] # "new"
    /\ overlap' = (overlap \/ \E u \in Tasks \ {t} : pc[u] \notin {"new", "done"})
    /\ kind' = [kind EXCEPT ![t] = k]
    /\ est' = [est EXCEPT ![t] = e]
    /\ \/ /\ TakeSlot
          /\ RateCheckAndOn(t, e)
       \/ /\ sem <= 0 \/ \E u \in Tasks : pc[u] = "sem_wait"
          /\ pc' = [pc EXCEPT ![t] = "sem_wait"]
          /\ UNCHANGED <<sem, request_times, admitted, wake, lock_owner>>
    /\ UNCHANGED <<config, now, usage_history, pending, last_exit, leaked, rq,
                   last_error, emb, app, node>>

Generate(t) ==
    \E promptLen \in PromptLens :
        StartCall(t, "generate", GenerateEstimate(promptLen))

GetEmbeddings(t) ==
    \E texts \in TextLists :
        StartCall(t, "get_embeddings", EmbeddingsEstimate(texts))

\* request_semaphore.acquire() returns to a waiter
SemaphoreGranted(t) ==
    /\ pc[t] = "sem_wait"
    /\ TakeSlot
    /\ RateCheckAndOn(t, est[t])
    /\ UNCHANGED <<config, now, usage_history, pending, kind, est, last_exit,
                   leaked, overlap, rq,
                   last_error, emb, app, node>>

\* the asyncio.sleep of _wait_for_rate_limit is over
RateSleepOver(t) ==
    /\ \/ pc[t] = "rpm_yield"
       \/ pc[t] = "rpm_sleep" /\ now >= wake[t]
    /\ RateCheckAndOn(t, est[t])
    /\ UNCHANGED <<config, now, sem, usage_history, pending, kind, est,
                   last_exit, leaked, overlap, rq,
                   last_error, emb, app, node>>

\* the asyncio.sleep of _wait_for_token_limit is over
TokenSleepOver(t) ==
    /\ pc[t] = "tpm_sleep"
    /\ now >= wake[t]
    /\ TokenCheckAndRecord(t, est[t], request_times)
    /\ UNCHANGED <<config, now, sem, usage_history, pending, kind, est,
                   last_exit, leaked, overlap, rq,
                   last_error, emb, app, node>>

\* the raw client returns: the wrapper releases with the actual usage
RawReturns(t) ==
    /\ pc[t] = "in_flight"
    /\ \E resultLen \in ResultLens :
          Release(IF kind[t] = "generate"
                  THEN GenerateActual(resultLen, est[t])
                  ELSE est[t])
    /\ Exit(t, "returned")
    /\ last_error' = NoError
    /\ UNCHANGED <<config, now, request_times, usage_history, leaked,
                   admitted, overlap, rq, lock_owner, emb, app, node>>

\* a wrapper that raises an error of its own in place of the one it caught
Reraise_Wrapped(e) == [type |-> "RuntimeError", id |-> 0]

\* "raise e": the exception object bound by "except Exception as e"
Reraise(e) == e

\* a wrapper that re-raises without releasing
RawRaises_NoRelease(t) ==
    /\ pc[t] = "in_flight"
    /\ Exit(t, "raised")
    /\ \E e \in Errors : last_error' = [raw |-> e, out |-> Reraise(e)]
    /\ UNCHANGED <<config, now, sem, request_times, usage_history, pending,
                   leaked, admitted, overlap, rq, lock_owner, emb, app, node>>

\* the raw client raises an Exception: "except Exception as e" releases
\* with 0, then "raise e"
RawRaises(t) ==
    /\ pc[t] = "in_flight"
    /\ Release(0)
    /\ Exit(t, "raised")
    /\ \E e \in Errors : last_error' = [raw |-> e, out |-> Reraise(e)]
    /\ UNCHANGED <<config, now, request_times, usage_history, leaked,
                   admitted, overlap, rq, lock_owner, emb, app, node>>

\* The task is cancelled at its suspension point.  CancelledError is a
\* BaseException: neither "except Exception" of acquire nor that of the
\* wrapper catches it, so no release runs.  Semaphore.acquire itself gives
\* up its place in the queue without taking a slot.
Cancelled(t) ==
    /\ pc[t] \in {"sem_wait"} \cup Holding
    /\ Exit(t, "cancelled")
    /\ leaked' = IF pc[t] \in Holding THEN leaked + 1 ELSE leaked
    /\ last_error' = NoError
    /\ lock_owner' = Unlock(lock_owner, t)
    /\ UNCHANGED <<config, now, sem, request_times, usage_history, pending,
                   admitted, overlap, rq, emb, app, node>>

\* the event loop runs the oldest add_usage task created by release
RunAddUsage ==
    /\ pending # <<>>
    /\ lock_owner.ledger = 0
    /\ usage_history' = add_usage(usage_history, now, Head(pending))
    /\ pending' = Tail(pending)
    /\ UNCHANGED <<config, now, sem, request_times, pc, kind, est, wake,
                   last_exit, leaked, admitted, overlap, rq, lock_owner,
                   last_error, emb, app, node>>

\* time passes; the ready add_usage tasks have run before the loop blocks
Tick ==
    /\ pending = <<>>
    /\ now + TickStep <= MaxTime
    /\ now' = now + TickStep
    /\ UNCHANGED <<config, sem, request_times, usage_history, pending, pc,
                   kind, est, wake, last_exit, leaked, admitted, overlap, rq,
                   lock_owner, last_error, emb, app, node>>

----------------------------------------------------------------------------
(* BaseAPIClient._request_with_retry *)

\* what the transport does on one attempt: an HTTP status, or 0 when the
\* request raises httpx.TimeoutException or another network error
Responses == {0, 200, 404, 429, 503}

\* the transport answers attempt i with script[i + 1]
Scripts == [1..(MaxRetriesBound + 1) -> Responses]

\* "if response.status_code in [429, 500, 502, 503, 504]"
RetryableStatus(r) == r \in {429, 500, 502, 503, 504}

\* a try block without the two status checks: only the request raises
AttemptRaises_NoStatusCheck(r) == r = 0

\* the try block raises httpx.HTTPError or httpx.TimeoutException: the
\* request itself, the explicit raise, or response.raise_for_status()
AttemptRaises(r) ==
    \/ r = 0
    \/ RetryableStatus(r)
    \/ r \notin 200..299

\* a loop that backs off after every failed attempt, the last included
IsLastAttempt_Never(attempt, max_retries) == FALSE

\* a loop that gives up one attempt early
IsLastAttempt_OffByOne(attempt, max_retries) == attempt + 1 >= max_retries

\* "if attempt == max_retries: raise"
IsLastAttempt(attempt, max_retries) == attempt = max_retries

RECURSIVE Pow2(_)
Pow2(n) == IF n = 0 THEN 1 ELSE 2 * Pow2(n - 1)

\* "base_backoff * (2 ** attempt)", the wait without its jitter
Backoff(base_backoff, attempt) == base_backoff * Pow2(attempt)

\* a call of _request_with_retry entering its loop
RqCall(script, max_retries) ==
    [state |-> "attempting", script |-> script, max_retries |-> max_retries,
     base_backoff |-> 1, attempt |-> 0, attempts |-> 0, sleeps |-> 0,
     wait |-> 0, result |-> -1, error |-> <<>>]

\* one pass of the loop body up to its suspension or exit: the request is
\* sent and its outcome handled
RqAttempt ==
    /\ rq.state = "attempting"
    /\ LET r == rq.script[rq.attempt + 1]
           sent == [rq EXCEPT !.attempts = @ + 1]
       IN IF ~AttemptRaises(r)
          THEN rq' = [sent EXCEPT !.state = "returned", !.result = r]
          ELSE IF IsLastAttempt(rq.attempt, rq.max_retries)
          THEN rq' = [sent EXCEPT !.state = "raised",
                                  !.error = <<rq.attempt, r>>]
          ELSE \E jitter \in {0, 1} :
                  rq' = [sent EXCEPT !.state = "backoff",
                                     !.sleeps = @ + 1,
                                     !.wait = Backoff(rq.base_backoff, rq.attempt) + jitter]
    /\ UNCHANGED <<config, now, sem, request_times, usage_history, pending, pc,
                   kind, est, wake, last_exit, leaked, admitted, overlap,
                   lock_owner, last_error, emb, app, node>>

\* the backoff sleep is over: the for loop goes on, or falls off its end
RqBackoffOver ==
    /\ rq.state = "backoff"
    /\ rq' = IF rq.attempt + 1 <= rq.max_retries
             THEN [rq EXCEPT !.state = "attempting", !.attempt = @ + 1]
             ELSE [rq EXCEPT !.state = "fell_through"]
    /\ UNCHANGED <<config, now, sem, request_times, usage_history, pending, pc,
                   kind, est, wake, last_exit, leaked, admitted, overlap,
                   lock_owner, last_error, emb, app, node>>

InitRetry ==
    /\ config = [requests_per_minute |-> 2, tokens_per_minute |-> 1000,
                 max_concurrent_requests |-> 1]
    /\ now = 0
    /\ sem = config.max_concurrent_requests
    /\ request_times = <<>>
    /\ usage_history = <<>>
    /\ pending = <<>>
    /\ pc = [t \in Tasks |-> "new"]
    /\ kind = [t \in Tasks |-> "generate"]
    /\ est = [t \in Tasks |-> 0]
    /\ wake = [t \in Tasks |-> 0]
    /\ last_exit = "none"
    /\ leaked = 0
    /\ admitted = <<>>
    /\ overlap = FALSE
    /\ \E script \in Scripts, max_retries \in 0..MaxRetriesBound :
          rq = RqCall(script, max_retries)
    /\ lock_owner = NoOwner
    /\ last_error = NoError
    /\ emb = EmbIdle
    /\ app = AppIdle
    /\ node = NodeIdle

NextRetry ==
    \/ RqAttempt
    \/ RqBackoffOver

SpecRetry == InitRetry /\ [][NextRetry]_vars

----------------------------------------------------------------------------
(* The limiter at rest, for the specifications of the other components *)

limiter_vars == <<config, now, sem, request_times, usage_history, pending, pc,
                  kind, est, wake, last_exit, leaked, admitted, overlap,
                  lock_owner, last_error>>

LimiterUnused ==
    /\ config = [requests_per_minute |-> 2, tokens_per_minute |-> 1000,
                 max_concurrent_requests |-> 1]
    /\ now = 0
    /\ sem = config.max_concurrent_requests
    /\ request_times = <<>>
    /\ usage_history = <<>>
    /\ pending = <<>>
    /\ pc = [t \in Tasks |-> "new"]
    /\ kind = [t \in Tasks |-> "generate"]
    /\ est = [t \in Tasks |-> 0]
    /\ wake = [t \in Tasks |-> 0]
    /\ last_exit = "none"
    /\ leaked = 0
    /\ admitted = <<>>
    /\ overlap = FALSE
    /\ lock_owner = NoOwner
    /\ last_error = NoError

----------------------------------------------------------------------------
(* LLMClient._get_openai_embeddings_batched *)

Min(a, b) == IF a <= b THEN a ELSE b

\* the texts, each standing for its content
TextIds == 1..NumTextIds

\* the lists of texts passed to get_embeddings
TextInputs == UNION {[1..n -> TextIds] : n \in 1..MaxTexts}

\* the embedding the provider computes for a text
Embedding(text) == <<"embedding", text>>

\* a split into full batches only, the remainder dropped
Batches_FullOnly(texts, batch_size) ==
    [j \in 1..(Len(texts) \div batch_size) |->
        SubSeq(texts, (j - 1) * batch_size + 1, j * batch_size)]

\* "[texts[i:i + batch_size] for i in range(0, len(texts), batch_size)]"
Batches(texts, batch_size) ==
    [j \in 1..((Len(texts) + batch_size - 1) \div batch_size) |->
        SubSeq(texts, (j - 1) * batch_size + 1,
               Min(j * batch_size, Len(texts)))]

\* _get_openai_embeddings_single_batch: one embedding per item of the
\* response's data, which lists the inputs in the order they were sent
SingleBatch(batch) == [i \in 1..Len(batch) |-> Embedding(batch[i])]

\* "for batch_embeddings in batch_results: all_embeddings.extend(...)"
RECURSIVE Flatten(_)
Flatten(batch_results) ==
    IF batch_results = <<>> THEN <<>>
    ELSE Head(batch_results) \o Flatten(Tail(batch_results))

\* results collected in the order the sub-batches completed
GatherOrder_AsCompleted(n, completed) == completed

\* asyncio.gather: the results come in the order of the awaitables passed,
\* whatever the order of completion
GatherOrder(n, completed) == [i \in 1..n |-> i]

\* a call of _get_openai_embeddings_batched up to its first suspension
EmbCall(texts, batch_size) ==
    [state |-> IF Len(texts) <= batch_size THEN "single" ELSE "gathering",
     texts |-> texts,
     batch_size |-> batch_size,
     batches |-> IF Len(texts) <= batch_size THEN <<texts>>
                 ELSE Batches(texts, batch_size),
     completed |-> <<>>,
     out |-> <<>>]

\* the sub-batch requests still running
EmbRunning ==
    {i \in DOMAIN emb.batches :
        \A j \in DOMAIN emb.completed : emb.completed[j] # i}

\* the request of sub-batch i completes
EmbBatchCompletes(i) ==
    /\ emb.state \in {"single", "gathering"}
    /\ i \in EmbRunning
    /\ emb' = [emb EXCEPT !.completed = Append(@, i)]
    /\ UNCHANGED <<limiter_vars, rq, app, node>>

\* the request of sub-batch i raises: the await raises it to the caller
EmbBatchFails(i) ==
    /\ emb.state \in {"single", "gathering"}
    /\ i \in EmbRunning
    /\ emb' = [emb EXCEPT !.state = "raised"]
    /\ UNCHANGED <<limiter_vars, rq, app, node>>

\* every request is complete: the single batch is returned as it is, the
\* gathered batches are flattened
EmbReturns ==
    /\ emb.state \in {"single", "gathering"}
    /\ EmbRunning = {}
    /\ LET n == Len(emb.batches)
           order == GatherOrder(n, emb.completed)
           batch_results == [j \in 1..n |-> SingleBatch(emb.batches[order[j]])]
       IN emb' = [emb EXCEPT
                     !.state = "returned",
                     !.out = IF emb.state = "single"
                             THEN SingleBatch(emb.batches[1])
                             ELSE Flatten(batch_results)]
    /\ UNCHANGED <<limiter_vars, rq, app, node>>

InitEmbed ==
    /\ LimiterUnused
    /\ rq = RqIdle
    /\ app = AppIdle
    /\ node = NodeIdle
    /\ \E texts \in TextInputs, batch_size \in 1..MaxBatchSize :
          emb = EmbCall(texts, batch_size)

NextEmbed ==
    \/ \E i \in 1..MaxTexts : EmbBatchCompletes(i)
    \/ \E i \in 1..MaxTexts : EmbBatchFails(i)
    \/ EmbReturns

SpecEmbed == InitEmbed /\ [][NextEmbed]_vars

----------------------------------------------------------------------------
(* POST /market-context: main.generate_market_context, and the requests   *)
(* to the LLM provider that MarketContextPipeline.run makes on its way.    *)
(* A string is the sequence of its characters; "LF" is the newline         *)
(* character and "U+0662" the ARABIC-INDIC DIGIT TWO.  An error message is *)
(* the sequence of its parts.                                              *)

AsciiDigits == {"0", "1", "2", "3", "4", "5", "6", "7", "8", "9"}

\* "\d" of a str pattern matches every Unicode decimal digit
RegexDigits == AsciiDigits \cup {"U+0662"}

\* "-Q[1-4]" preceded by four characters of digits
PeriodShape(p, digits) ==
    /\ Len(p) = 7
    /\ \A i \in 1..4 : p[i] \in digits
    /\ p[5] = "-"
    /\ p[6] = "Q"
    /\ p[7] \in {"1", "2", "3", "4"}

\* re.match(r'^\d{4}-Q[1-4]$', period): "$" matches at the end of the string
\* and also just before a newline that ends the string
RegexMatch(p) ==
    \/ PeriodShape(p, RegexDigits)
    \/ /\ Len(p) = 8
       /\ p[8] = "LF"
       /\ PeriodShape(SubSeq(p, 1, 7), RegexDigits)

\* main._is_valid_period_format
IsValidPeriodFormat(p) == RegexMatch(p)

\* the values of the period query parameter tried
Periods ==
    {<<"2", "0", "2", "4", "-", "Q", "1">>,
     <<"2", "0", "2", "5", "-", "Q", "4">>,
     <<"2", "0", "2", "4", "-", "Q", "5">>,
     <<"2", "0", "2", "4", "-", "Q", "0">>,
     <<"2", "0", "2", "4", "-", "Q">>,
     <<"2", "0", "2", "4", "Q", "3">>,
     <<"2", "4", "-", "Q", "3">>,
     <<"2", "0", "2", "4", "-", "Q", "1", "0">>,
     <<"2", "0", "2", "4", "-", "Q", "1", "LF">>,
     <<"U+0662", "0", "2", "4", "-", "Q", "1">>,
     <<>>}

\* the stages of the graph that work with an LLM client, in the order of
\* the graph's edges
Sites == <<"retrieve", "draft", "revise", "output">>

\* positional arguments the stage passes to LLMClient: VectorStore calls
\* LLMClient(), create_llm_client and output_node call LLMClient(config)
CtorArgs(site) == IF site = "retrieve" THEN 0 ELSE 1

\* LLMClient.__init__(self) takes no argument: any other call raises
\* TypeError, which the stage catches
ConstructorAccepts(nargs) == nargs = 0

\* the client of the stage is a RateLimitedLLMClient: only
\* create_llm_client, used by draft and revise, wraps the raw client
Wrapped(site) == site \in {"draft", "revise"}

\* the stage sends a request to the provider
MakesRequest(site, indexed) ==
    /\ ConstructorAccepts(CtorArgs(site))
    /\ site = "retrieve" => indexed

\* the parts of the messages of the ValueErrors tried
ValueErrorMessages ==
    {<<"Schema validation failed", ": ", "text">>,
     <<"Schema validation failed">>,
     <<"Business rule validation failed", ": ", "text">>,
     <<"Business rule validation failed">>,
     <<"text">>}

Returned(text) ==
    [kind |-> "returns", type |-> "str", msg |-> <<>>, status |-> 0,
     text |-> text]

Raised(type, msg, status) ==
    [kind |-> "raises", type |-> type, msg |-> msg, status |-> status,
     text |-> ""]

\* How a call of pipeline.run ends: it returns result["formatted_context"],
\* a str, or raises.  The handler is taken against every outcome, as the
\* tests do by replacing run.
RunOutcomes ==
    {Returned("report")}
    \cup {Raised("RuntimeError", <<"Pipeline not initialized">>, 0)}
    \cup {Raised("ValueError", m, 0) : m \in ValueErrorMessages}
    \cup {Raised("HTTPException", <<"unavailable">>, 503)}

NoOutcome == [kind |-> "none", type |-> "", msg |-> <<>>, status |-> 0, text |-> ""]

NoResponse == [status |-> 0, detail |-> <<>>, formatted_context |-> "", period |-> <<>>]

\* "marker in error_msg"
Contains(msg, marker) == \E i \in DOMAIN msg : msg[i] = marker

\* error_msg.split(marker + ': ', 1)
SplitOnce(msg, marker) ==
    LET hits == {i \in 1..(Len(msg) - 1) : msg[i] = marker /\ msg[i + 1] = ": "}
    IN IF hits = {} THEN <<msg>>
       ELSE LET i == CHOOSE h \in hits : \A g \in hits : h <= g
            IN <<SubSeq(msg, 1, i - 1), SubSeq(msg, i + 2, Len(msg))>>

\* "raise HTTPException(status_code=..., detail=...)" as the response
\* FastAPI makes of it
HTTPError(status, detail) ==
    [status |-> status, detail |-> detail, formatted_context |-> "",
     period |-> <<>>]

\* an exception that leaves the handler: the server answers 500
Unhandled == HTTPError(500, <<"Internal Server Error">>)

\* the "except ValueError" clause; the [1] of an unsplit message raises
\* IndexError inside the clause, which no clause of the same try catches
OnValueError(msg) ==
    LET extract(marker) ==
            IF Len(SplitOnce(msg, marker)) < 2 THEN Unhandled
            ELSE HTTPError(400, <<marker, ": ">> \o SplitOnce(msg, marker)[2])
    IN IF Contains(msg, "Schema validation failed")
       THEN extract("Schema validation failed")
       ELSE IF Contains(msg, "Business rule validation failed")
       THEN extract("Business rule validation failed")
       ELSE HTTPError(400, <<"Validation failed", ": ">> \o msg)

\* the "except Exception" clause
OnException(msg) == HTTPError(500, <<"Internal server error", ": ">> \o msg)

\* the rest of the try block once pipeline.run has returned:
\* result["formatted_context"] on a str raises TypeError
OnReturn(outcome, period) ==
    IF outcome.type = "dict"
    THEN [status |-> 200, detail |-> <<>>,
          formatted_context |-> outcome.text, period |-> period]
    ELSE OnException(<<"string indices must be integers">>)

\* the response of the handler to an outcome of pipeline.run
Respond(outcome, period) ==
    IF outcome.kind = "returns" THEN OnReturn(outcome, period)
    ELSE IF outcome.type = "HTTPException"
    THEN HTTPError(outcome.status, outcome.msg)
    ELSE IF outcome.type = "ValueError" THEN OnValueError(outcome.msg)
    ELSE OnException(outcome.msg)

\* the attributes MarketContextPipeline.__init__ and initialize set
PipelineAttributes == {"graph", "vectorstore"}

\* no response to GET /health yet
NoHealth == [status |-> 0, body |-> <<>>]

\* main.health_check; the body of a response is the function of its keys.
\* Reading an attribute the pipeline object does not have raises
\* AttributeError, which the "except Exception" clause answers.
health_check(graph, indexed) ==
    IF ~graph
    THEN [status |-> 503,
          body |-> ("status" :> "unhealthy")
                   @@ ("reason" :> "Pipeline not initialized")]
    ELSE LET vector_status == IF indexed THEN "available" ELSE "not_indexed"
         IN IF "rate_limiter" \notin PipelineAttributes
            THEN [status |-> 503,
                  body |-> ("status" :> "unhealthy")
                           @@ ("reason" :> "'MarketContextPipeline' object has no attribute 'rate_limiter'")
                           @@ ("service" :> "market-context-generator")]
            ELSE [status |-> 200,
                  body |-> ("status" :> "healthy")
                           @@ ("service" :> "market-context-generator")
                           @@ ("vector_store" :> vector_status)
                           @@ ("rate_limiter" :> "active")
                           @@ ("version" :> "1.0.0")]

\* A POST /market-context request arrives at a server whose pipeline has
\* its graph built or not, and its vector store indexed or not.  No
\* GET /health has been answered yet.
AppRequest(period, indexed, graph) ==
    [state |-> "received", period |-> period, indexed |-> indexed,
     graph |-> graph, health |-> NoHealth,
     run_invoked |-> FALSE, site |-> 1, requests |-> <<>>,
     outcome |-> NoOutcome, response |-> NoResponse]

\* the handler up to "await pipeline.run(period)"
HandlerValidates ==
    /\ app.state = "received"
    /\ app' = IF ~IsValidPeriodFormat(app.period)
              THEN [app EXCEPT
                       !.state = "responded",
                       !.response = HTTPError(400,
                           <<"Invalid period format">> \o app.period)]
              ELSE [app EXCEPT !.state = "running", !.run_invoked = TRUE]
    /\ UNCHANGED <<limiter_vars, rq, emb, node>>

\* the graph runs its next stage that works with an LLM client; revise is
\* skipped when validation passed
PipelineStage ==
    /\ app.state = "running"
    /\ app.graph
    /\ app.site <= Len(Sites)
    /\ LET site == Sites[app.site] IN
       \E skipped \in {b \in BOOLEAN : b => site = "revise"} :
          app' = [app EXCEPT
                     !.site = @ + 1,
                     !.requests =
                         IF ~skipped /\ MakesRequest(site, app.indexed)
                         THEN Append(@, [site |-> site,
                                         limited |-> Wrapped(site)])
                         ELSE @]
    /\ UNCHANGED <<limiter_vars, rq, emb, node>>

\* pipeline.run ends
PipelineRunEnds ==
    /\ app.state = "running"
    /\ app.graph => app.site > Len(Sites)
    /\ \E outcome \in RunOutcomes :
          /\ ~app.graph =>
                outcome = Raised("RuntimeError", <<"Pipeline not initialized">>, 0)
          /\ app' = [app EXCEPT !.state = "run_done", !.outcome = outcome]
    /\ UNCHANGED <<limiter_vars, rq, emb, node>>

\* the handler from the return of "await pipeline.run(period)" on
HandlerResponds ==
    /\ app.state = "run_done"
    /\ app' = [app EXCEPT !.state = "responded",
                          !.response = Respond(app.outcome, app.period)]
    /\ UNCHANGED <<limiter_vars, rq, emb, node>>

\* GET /health is answered, at any point of the handling of the POST
HealthCheck ==
    /\ app.state # "unused"
    /\ app.health = NoHealth
    /\ app' = [app EXCEPT !.health = health_check(app.graph, app.indexed)]
    /\ UNCHANGED <<limiter_vars, rq, emb, node>>

\* the vector store is indexed only once initialize has run, and then the
\* graph is built unless initialize failed after indexing
InitApp ==
    /\ LimiterUnused
    /\ rq = RqIdle
    /\ emb = EmbIdle
    /\ node = NodeIdle
    /\ \E period \in Periods, indexed \in BOOLEAN, graph \in BOOLEAN :
          app = AppRequest(period, indexed, graph)

NextApp ==
    \/ HealthCheck
    \/ HandlerValidates
    \/ PipelineStage
    \/ PipelineRunEnds
    \/ HandlerResponds

SpecApp == InitApp /\ [][NextApp]_vars

----------------------------------------------------------------------------
(* nodes/validate.py validate_node and nodes/revise.py revise_node, with   *)
(* the conditional edge of MarketContextPipeline between them.  A state    *)
(* dict is a function from its keys; every value is a tuple of strings.    *)

\* Python's None
None == <<"None">>

\* a key the state dict does not have
Absent == <<>>

\* values of draft_context: draft_node stores whatever json.loads returned
ValidDrafts == {<<"dict", "valid">>, <<"dict", "minimal">>}
DraftValues ==
    ValidDrafts \cup {<<"dict", "missing_fields">>, <<"dict", "wrong_types">>,
                      <<"dict">>, <<"list">>, None}

\* the keys of the state dicts tried; custom_field is not in PipelineState
NodeKeys ==
    {"period", "draft_context", "validated_context", "final_context", "error",
     "custom_field"}

\* the state dicts passed to a node
NodeStates ==
    LET choices ==
            [period : {<<"2024-Q3">>},
             draft_context : DraftValues \cup {Absent},
             validated_context : {Absent, None, <<"MarketContext", "given">>},
             final_context : {Absent, None},
             error : {Absent, None, <<"earlier error">>},
             custom_field : {Absent, <<"custom_value">>}]
    IN {[k \in {key \in NodeKeys : c[key] # Absent} |-> c[k]] : c \in choices}

\* state.get(key, default)
Get(state, key, default) ==
    IF key \in DOMAIN state THEN state[key] ELSE default

\* a merge that keeps the updated keys only
Merge_OnlyUpdates(state, updates) == updates

\* {**state, key: value, ...}
Merge(state, updates) ==
    [k \in DOMAIN state \cup DOMAIN updates |->
        IF k \in DOMAIN updates THEN updates[k] ELSE state[k]]

\* MarketContext(**draft_context): ** needs a mapping, then pydantic checks
\* the fields
Construct(draft_context) ==
    IF draft_context[1] # "dict"
    THEN [raises |-> "TypeError",
          str |-> <<"argument after ** must be a mapping">>]
    ELSE IF draft_context \in ValidDrafts
    THEN [raises |-> "none",
          value |-> <<"MarketContext", draft_context[2]>>]
    ELSE [raises |-> "ValidationError",
          str |-> <<"validation errors for MarketContext">>]

\* validate_node
validate_node(state) ==
    LET draft_context == Get(state, "draft_context", <<"dict">>)
        made == Construct(draft_context)
    IN IF made.raises = "none"
       THEN Merge(state, ("validated_context" :> made.value)
                         @@ ("final_context" :> made.value))
       ELSE IF made.raises = "ValidationError"
       THEN Merge(state,
                  "error" :> (<<"Schema validation failed: ">> \o made.str))
       ELSE Merge(state, "error" :> made.str)

\* "if value": None and the empty string are falsy, a message with text and
\* a MarketContext are truthy
Truthy(value) == value \notin {None, <<"">>}

\* MarketContextPipeline._should_revise
should_revise(state) ==
    IF Truthy(Get(state, "error", None)) THEN TRUE
    ELSE IF Truthy(Get(state, "validated_context", None)) THEN FALSE
    ELSE TRUE

\* how the try block of revise_node goes
RevisionOutcomes ==
    {"client_error", "prompt_unreadable", "llm_raises", "not_json",
     "schema_mismatch", "revised"}

\* the try block reaches its return: validated_context.model_dump_json
\* needs a MarketContext, and nothing else raises
Revised(validated_context, outcome) ==
    outcome = "revised" /\ validated_context[1] = "MarketContext"

\* a fallback that wipes the error of the stages before
Fallback_ClearsError(state, validated_context) ==
    Merge(state, ("final_context" :> validated_context) @@ ("error" :> None))

\* a fallback that reports the failure in the state
Fallback_SetsError(state, validated_context) ==
    Merge(state, ("final_context" :> validated_context)
                 @@ ("error" :> <<"revision failed">>))

\* "except Exception: return {**state, "final_context": validated_context}"
Fallback(state, validated_context) ==
    Merge(state, "final_context" :> validated_context)

\* revise_node once state["validated_context"] was read
revise_node(state, outcome) ==
    LET validated_context == state["validated_context"]
    IN IF Revised(validated_context, outcome)
       THEN Merge(state, "final_context" :> <<"MarketContext", "revised">>)
       ELSE Fallback(state, validated_context)

\* a node is called with the state dict given
NodeCall(name, state) ==
    [state |-> "called", name |-> name, input |-> state, output |-> state,
     outcome |-> "none"]

ValidateNode ==
    /\ node.state = "called"
    /\ node.name = "validate"
    /\ node' = [node EXCEPT !.state = "returned",
                            !.output = validate_node(node.input)]
    /\ UNCHANGED <<limiter_vars, rq, emb, app>>

\* the conditional edge after validate: revise, or on to output
RouteAfterValidate ==
    /\ node.state = "returned"
    /\ node.name = "validate"
    /\ node' = IF should_revise(node.output)
               THEN NodeCall("revise", node.output)
               ELSE NodeCall("output", node.output)
    /\ UNCHANGED <<limiter_vars, rq, emb, app>>

\* state["validated_context"] raises KeyError before the try block
ReviseNode ==
    /\ node.state = "called"
    /\ node.name = "revise"
    /\ \E outcome \in RevisionOutcomes :
          node' = IF "validated_context" \in DOMAIN node.input
                  THEN [node EXCEPT
                           !.state = "returned",
                           !.outcome = outcome,
                           !.output = revise_node(node.input, outcome)]
                  ELSE [node EXCEPT !.state = "raised"]
    /\ UNCHANGED <<limiter_vars, rq, emb, app>>

InitNodes ==
    /\ LimiterUnused
    /\ rq = RqIdle
    /\ emb = EmbIdle
    /\ app = AppIdle
    /\ \E name \in {"validate", "revise"}, state \in NodeStates :
          node = NodeCall(name, state)

NextNodes ==
    \/ ValidateNode
    \/ RouteAfterValidate
    \/ ReviseNode

SpecNodes == InitNodes /\ [][NextNodes]_vars

----------------------------------------------------------------------------
(* MarketContextPipeline.run: the graph of _build_graph run on the initial *)
(* state, each stage called with the state dict the stage before returned. *)

\* str(e) of the exceptions a stage catches from its collaborators: a
\* message, or the empty string of an exception raised without one
Messages == {<<"text">>, <<"">>}

\* the valid periods tried
RunPeriods == {<<"2024-Q1">>, <<"2025-Q4">>}

\* initial_state of run; the vector store is kept beside the dict
InitialState(period) ==
    ("period" :> period) @@ ("documents" :> <<"list">>)
    @@ ("processed_data" :> <<"dict">>) @@ ("draft_context" :> <<"dict">>)
    @@ ("validated_context" :> None) @@ ("final_context" :> None)
    @@ ("formatted_context" :> <<"">>) @@ ("error" :> None)

\* how the try block of a stage can go.  retrieve searches an indexed vector
\* store and falls back to mock documents otherwise; draft, revise and
\* output build their client with LLMClient(config) before anything else.
StageOutcomes(stage, indexed, state) ==
    LET raises == {<<"raises">> \o m : m \in Messages}
        TypeErrorOnly ==
            {<<"raises", "LLMClient.__init__() takes 1 positional argument">>}
    IN IF stage = "retrieve"
       THEN (IF indexed THEN {<<"searched">>} \cup raises ELSE {<<"mock">>})
       ELSE IF stage = "ingest"
       THEN {<<"snapshot">>, <<"fetched">>} \cup raises
       ELSE IF stage = "draft"
       THEN (IF ConstructorAccepts(CtorArgs("draft"))
             THEN {<<"drafted">> \o d : d \in DraftValues} \cup raises
             ELSE TypeErrorOnly)
       ELSE IF stage = "revise"
       THEN (IF ConstructorAccepts(CtorArgs("revise"))
             THEN {<<o>> : o \in RevisionOutcomes}
             ELSE {<<"client_error">>})
       ELSE IF stage = "output"
       THEN (IF ~Truthy(Get(state, "validated_context", None))
             THEN {<<"nothing_to_format">>}
             ELSE IF ConstructorAccepts(CtorArgs("output"))
             THEN {<<"formatted">>} \cup raises
             ELSE TypeErrorOnly)
       ELSE {<<"checked">>}

\* retrieve_node
retrieve_node(state, outcome) ==
    IF outcome[1] = "raises" THEN Merge(state, "error" :> Tail(outcome))
    ELSE Merge(state, ("documents" :> <<"list", outcome[1]>>)
                      @@ ("retrieved_chunks" :> <<"list", outcome[1]>>))

\* ingest_node
ingest_node(state, outcome) ==
    IF outcome[1] = "raises" THEN Merge(state, "error" :> Tail(outcome))
    ELSE Merge(state, "processed_data" :> <<"dict", outcome[1]>>)

\* draft_node
draft_node(state, outcome) ==
    IF outcome[1] = "raises"
    THEN Merge(state, ("error" :> Tail(outcome))
                      @@ ("draft_context" :> <<"dict">>))
    ELSE Merge(state, "draft_context" :> Tail(outcome))

\* output_node
output_node(state, outcome) ==
    Merge(state, "formatted_context" :>
        (IF outcome[1] = "nothing_to_format"
         THEN <<"No market context available to format">>
         ELSE IF outcome[1] = "raises"
         THEN <<"Error formatting context: ">> \o Tail(outcome)
         ELSE <<"report">>))

\* the stage called with state, its try block going as outcome says
RunStage(stage, state, outcome) ==
    IF stage = "retrieve" THEN retrieve_node(state, outcome)
    ELSE IF stage = "ingest" THEN ingest_node(state, outcome)
    ELSE IF stage = "draft" THEN draft_node(state, outcome)
    ELSE IF stage = "validate" THEN validate_node(state)
    ELSE IF stage = "revise" THEN revise_node(state, outcome[1])
    ELSE output_node(state, outcome)

\* an edge from validate that never leads to revise
NextStage_NeverRevise(stage, state) ==
    IF stage = "retrieve" THEN "ingest"
    ELSE IF stage = "ingest" THEN "draft"
    ELSE IF stage = "draft" THEN "validate"
    ELSE IF stage = "validate" THEN "output"
    ELSE IF stage = "revise" THEN "output"
    ELSE "END"

\* the edges of _build_graph: the stage that follows stage, which returned
\* state
NextStage(stage, state) ==
    IF stage = "retrieve" THEN "ingest"
    ELSE IF stage = "ingest" THEN "draft"
    ELSE IF stage = "draft" THEN "validate"
    ELSE IF stage = "validate"
    THEN (IF should_revise(state) THEN "revise" ELSE "output")
    ELSE IF stage = "revise" THEN "output"
    ELSE "END"

\* a run that returns whatever the final state says
RunResult_IgnoresError(result) ==
    [state |-> "run_returned", value |-> result["formatted_context"]]

\* "if result.get("error"): raise RuntimeError(result["error"])", else
\* "return result["formatted_context"]"
RunResult(result) ==
    IF Truthy(Get(result, "error", None))
    THEN [state |-> "run_raised", value |-> result["error"]]
    ELSE [state |-> "run_returned", value |-> result["formatted_context"]]

\* pipeline.run(period) is called; after_validate and into_output record
\* the state dict validate returned and the one output was called with
PipelineRun(period, graph, indexed) ==
    [state |-> "run_called", period |-> period, graph |-> graph,
     indexed |-> indexed, stage |-> "retrieve", dict |-> InitialState(period),
     trace |-> <<>>, after_validate |-> <<>>, into_output |-> <<>>,
     error_set |-> FALSE, value |-> <<>>]

\* run up to "await self.graph.ainvoke(initial_state)"
RunStarts ==
    /\ node.state = "run_called"
    /\ node' = IF ~node.graph
               THEN [node EXCEPT !.state = "run_raised",
                                 !.value = <<"Pipeline not initialized">>]
               ELSE [node EXCEPT !.state = "in_graph"]
    /\ UNCHANGED <<limiter_vars, rq, emb, app>>

\* the graph runs its next stage
GraphStep ==
    /\ node.state = "in_graph"
    /\ node.stage # "END"
    /\ \E outcome \in StageOutcomes(node.stage, node.indexed, node.dict) :
          LET returned == RunStage(node.stage, node.dict, outcome) IN
          node' = [node EXCEPT
                      !.dict = returned,
                      !.trace = Append(@, node.stage),
                      !.stage = NextStage(node.stage, returned),
                      !.after_validate =
                          IF node.stage = "validate" THEN returned ELSE @,
                      !.into_output =
                          IF node.stage = "output" THEN node.dict ELSE @,
                      !.error_set =
                          @ \/ returned["error"] # node.dict["error"]]
    /\ UNCHANGED <<limiter_vars, rq, emb, app>>

\* ainvoke returns the final state: the rest of run
RunEnds ==
    /\ node.state = "in_graph"
    /\ node.stage = "END"
    /\ node' = [node EXCEPT !.state = RunResult(node.dict).state,
                            !.value = RunResult(node.dict).value]
    /\ UNCHANGED <<limiter_vars, rq, emb, app>>

InitPipeline ==
    /\ LimiterUnused
    /\ rq = RqIdle
    /\ emb = EmbIdle
    /\ app = AppIdle
    /\ \E period \in RunPeriods, graph \in BOOLEAN, indexed \in BOOLEAN :
          node = PipelineRun(period, graph, indexed)

NextPipeline ==
    \/ RunStarts
    \/ GraphStep
    \/ RunEnds

SpecPipeline == InitPipeline /\ [][NextPipeline]_vars

----------------------------------------------------------------------------
Next ==
    \/ \E t \in Tasks : Generate(t)
    \/ \E t \in Tasks : GetEmbeddings(t)
    \/ \E t \in Tasks : SemaphoreGranted(t)
    \/ \E t \in Tasks : RateSleepOver(t)
    \/ \E t \in Tasks : TokenSleepOver(t)
    \/ \E t \in Tasks : RawReturns(t)
    \/ \E t \in Tasks : RawRaises(t)
    \/ \E t \in Tasks : Cancelled(t)
    \/ RunAddUsage
    \/ Tick

Spec == Init /\ [][Next]_vars

----------------------------------------------------------------------------
(* RateLimitedLLMClient.get_embeddings around the raw client's batched    *)
(* get_embeddings: the wrapper holds one slot while the raw call issues   *)
(* its sub-batch requests.  The clock stands still.                       *)

\* "embeddings = await self.llm_client.get_embeddings(texts, model,
\* batch_size)": the raw call of the wrapper call in flight starts and runs
\* to its first suspension, every sub-batch request issued
RawEmbeddingsStarts(t) ==
    /\ pc[t] = "in_flight"
    /\ kind[t] = "get_embeddings"
    /\ emb = EmbIdle
    /\ \E texts \in TextLists, batch_size \in 1..MaxBatchSize :
          emb' = EmbCall([i \in 1..Len(texts) |-> i], batch_size)
    /\ UNCHANGED <<limiter_vars, rq, app, node>>

\* the await of the raw call is over for the wrapper call t
RawCallOver(t, state) ==
    kind[t] = "get_embeddings" => emb.state = state

NextWrapped ==
    \/ \E t \in Tasks : Generate(t)
    \/ \E t \in Tasks :
          /\ \A u \in Tasks : kind[u] # "get_embeddings"
          /\ emb = EmbIdle
          /\ GetEmbeddings(t)
    \/ \E t \in Tasks : SemaphoreGranted(t)
    \/ \E t \in Tasks : RawEmbeddingsStarts(t)
    \/ \E i \in 1..MaxTexts : EmbBatchCompletes(i)
    \/ \E i \in 1..MaxTexts : EmbBatchFails(i)
    \/ EmbReturns
    \/ \E t \in Tasks : RawCallOver(t, "returned") /\ RawReturns(t)
    \/ \E t \in Tasks : RawCallOver(t, "raised") /\ RawRaises(t)
    \/ RunAddUsage

SpecWrapped == Init /\ [][NextWrapped]_vars

----------------------------------------------------------------------------
(* The limiter under fair scheduling, with a clock that never stops and   *)
(* no cancellation: every caller that is admitted releases.               *)

\* RateLimitConfig values tried under fair scheduling
ConfigsLive ==
    [requests_per_minute : {1, 2},
     tokens_per_minute : {300, 1000},
     max_concurrent_requests : {1, 2}]

\* a time.monotonic() reading after the origin of time has moved on by
\* TickStep; readings that have left every window are kept just outside it
Rebase(x, floor) == Max(x - TickStep, floor)

\* Time passes at the last instant the model counts up to: the origin moves
\* instead of the clock.  Every comparison of the limiter is between a
\* stored reading and now, so moving both alike changes no outcome.
TickWrap ==
    /\ pending = <<>>
    /\ now + TickStep > MaxTime
    /\ LET stale == now - DEFAULT_WINDOW_SIZE - TickStep IN
       /\ request_times' =
              [i \in DOMAIN request_times |-> Rebase(request_times[i], stale)]
       /\ usage_history' =
              [i \in DOMAIN usage_history |->
                  <<Rebase(usage_history[i][1], stale), usage_history[i][2]>>]
       /\ admitted' =
              [i \in DOMAIN admitted |->
                  <<Rebase(admitted[i][1], stale), admitted[i][2]>>]
       /\ wake' = [t \in Tasks |-> Rebase(wake[t], 0)]
    /\ UNCHANGED <<config, now, sem, pending, pc, kind, est, last_exit, leaked,
                   overlap, rq, lock_owner, last_error, emb, app, node>>

InitLive ==
    /\ config \in ConfigsLive
    /\ now = 0
    /\ sem = config.max_concurrent_requests
    /\ request_times = <<>>
    /\ usage_history = <<>>
    /\ pending = <<>>
    /\ pc = [t \in Tasks |-> "new"]
    /\ kind = [t \in Tasks |-> "generate"]
    /\ est = [t \in Tasks |-> 0]
    /\ wake = [t \in Tasks |-> 0]
    /\ last_exit = "none"
    /\ leaked = 0
    /\ admitted = <<>>
    /\ overlap = FALSE
    /\ rq = RqIdle
    /\ lock_owner = NoOwner
    /\ last_error = NoError
    /\ emb = EmbIdle
    /\ app = AppIdle
    /\ node = NodeIdle

NextLive ==
    \/ \E t \in Tasks : Generate(t)
    \/ \E t \in Tasks : GetEmbeddings(t)
    \/ \E t \in Tasks : SemaphoreGranted(t)
    \/ \E t \in Tasks : RateSleepOver(t)
    \/ \E t \in Tasks : TokenSleepOver(t)
    \/ \E t \in Tasks : RawReturns(t)
    \/ \E t \in Tasks : RawRaises(t)
    \/ RunAddUsage
    \/ Tick
    \/ TickWrap

\* the event loop runs every task that is ready, every raw call ends, and
\* time passes
FairLive ==
    /\ \A t \in Tasks : WF_vars(SemaphoreGranted(t))
    /\ \A t \in Tasks : WF_vars(RateSleepOver(t))
    /\ \A t \in Tasks : WF_vars(TokenSleepOver(t))
    /\ \A t \in Tasks : WF_vars(RawReturns(t) \/ RawRaises(t))
    /\ WF_vars(RunAddUsage)
    /\ WF_vars(Tick \/ TickWrap)

SpecLive == InitLive /\ [][NextLive]_vars /\ FairLive

----------------------------------------------------------------------------
(* Properties *)

\* the wrapper calls that hold the slot they took
Holders == {t \in Tasks : pc[t] \in Holding}

\* the wrapper calls between a successful acquire and the matching release
InFlight == {t \in Tasks : pc[t] = "in_flight"}

\* entries of a timestamp sequence inside the trailing window at time t
InWindowCount(q, t) ==
    Cardinality({i \in 1..Len(q) : q[i] >= t - DEFAULT_WINDOW_SIZE})

\* C1: the number of in-flight acquisitions never exceeds
\* max_concurrent_requests.
C1_InFlightBounded ==
    Cardinality(InFlight) <= config.max_concurrent_requests

\* every slot is in flight and a further caller waits for one
C1_Witness ==
    /\ Cardinality(InFlight) = config.max_concurrent_requests
    /\ \E t \in Tasks : pc[t] = "sem_wait"

\* C2: the trailing 60-second window never holds more than
\* requests_per_minute recorded request timestamps.
C2_RequestRateBound ==
    InWindowCount(request_times, now) <= config.requests_per_minute

\* C3: the tokens of the usage records inside the trailing window never sum
\* to more than tokens_per_minute.
C3_TokenRateBound ==
    get_usage_in_window(usage_history, now) <= config.tokens_per_minute

\* C4: with tokens_per_minute = 1000, of three acquire(400) calls made within
\* one window the third is not admitted while the first two are in the
\* window: no three admissions of 400 estimated tokens lie less than a
\* window apart.
C4_ThirdCallSuspended ==
    config.tokens_per_minute = 1000 =>
        \A i, j, k \in 1..Len(admitted) :
            (/\ i < j /\ j < k
             /\ admitted[i][2] = 400 /\ admitted[j][2] = 400
             /\ admitted[k][2] = 400)
            => admitted[k][1] - admitted[i][1] >= DEFAULT_WINDOW_SIZE

\* C5: when the raw client raises inside a wrapper call, that step releases
\* exactly once with no usage: one more slot is free, so a slot is free for a
\* subsequent call, and no ledger write is scheduled.
C5_ReleaseOnFailure ==
    [][\A t \in Tasks :
          (pc[t] = "in_flight" /\ pc'[t] = "done" /\ last_exit' = "raised")
          => (sem' = sem + 1 /\ sem' >= 1 /\ pending' = pending)]_vars

\* as many calls as there are slots have ended, the last by a raised error,
\* and a subsequent call got a slot and is in flight
C5_Witness ==
    /\ last_exit = "raised"
    /\ Cardinality({t \in Tasks : pc[t] = "done"}) = config.max_concurrent_requests
    /\ leaked = 0
    /\ \E t \in Tasks : pc[t] = "in_flight"

\* C6: once every wrapper call has exited, whatever was raised out of the raw
\* call, the number of free slots equals max_concurrent_requests.
C6_NoSlotHeldAfterExit ==
    (\A t \in Tasks : pc[t] \in {"new", "done"})
    => sem = config.max_concurrent_requests

\* C7: when acquire fails after it took the slot, the slot is released before
\* the failure propagates and no timestamp is recorded.
C7_AcquireFailureReleases ==
    [][\A t \in Tasks :
          (pc[t] \in Waiting /\ pc'[t] = "done")
          => (sem' = sem + 1 /\ request_times' = request_times)]_vars

\* C8: every acquire of the wrapper is released exactly once when the wrapped
\* call returns or raises, so the free slots stay within
\* 0..max_concurrent_requests: the free slots, the slots of the calls in
\* progress and the slots of the cancelled calls add up to the maximum.
C8_SlotsConserved ==
    /\ sem \in 0..config.max_concurrent_requests
    /\ sem + Cardinality(Holders) + leaked = config.max_concurrent_requests

\* two calls were admitted, the last one returned, and every slot is free again
C8_Witness ==
    /\ last_exit = "returned"
    /\ Len(admitted) >= 2
    /\ leaked = 0
    /\ Holders = {}
    /\ sem = config.max_concurrent_requests

\* C9: for non-overlapping wrapper calls, the (R+1)-th admission is at least
\* a window after the first of the R admissions before it.
C9_SequentialSpacing ==
    ~overlap =>
        \A i \in 1..Len(admitted) :
            i + config.requests_per_minute <= Len(admitted)
            => admitted[i + config.requests_per_minute][1] - admitted[i][1]
                  >= DEFAULT_WINDOW_SIZE

\* requests_per_minute = 2, max_concurrent_requests = 1: the third of three
\* sequential calls has been admitted
C9_Witness ==
    /\ ~overlap
    /\ config.requests_per_minute = 2
    /\ config.max_concurrent_requests = 1
    /\ Len(admitted) = 3

\* the transport of the call answers every attempt with a retryable status
AlwaysRetryable ==
    \A i \in DOMAIN rq.script : RetryableStatus(rq.script[i])

\* C10: against a transport that always answers with a retryable status,
\* _request_with_retry makes max_retries + 1 attempts and then raises the
\* error of the last attempt.
C10_RetryTermination ==
    (rq.state # "unused" /\ AlwaysRetryable) =>
        /\ rq.attempts <= rq.max_retries + 1
        /\ rq.state \notin {"returned", "fell_through"}
        /\ rq.state = "raised" =>
              /\ rq.attempts = rq.max_retries + 1
              /\ rq.error = <<rq.max_retries, rq.script[rq.max_retries + 1]>>

\* max_retries = 3 and a transport that always answers 503: raised after 4
\* attempts
C10_Witness ==
    /\ rq.state = "raised"
    /\ rq.max_retries = 3
    /\ \A i \in DOMAIN rq.script : rq.script[i] = 503
    /\ rq.attempts = 4

\* a failure the executor is meant to retry: a retryable status, a timeout
\* or a connection error
RetryableFailure(r) == r = 0 \/ RetryableStatus(r)

\* the transport answers its first k attempts with retryable failures and
\* the next one with a 2xx response
FailsThenSucceeds(k) ==
    /\ k + 1 \in DOMAIN rq.script
    /\ \A i \in 1..k : RetryableFailure(rq.script[i])
    /\ rq.script[k + 1] \in 200..299

\* C11: against k retryable failures followed by a 2xx response, with
\* k <= max_retries, _request_with_retry returns that response after exactly
\* k + 1 attempts and makes no further attempt.
C11_RetrySuccess ==
    rq.state # "unused" =>
        \A k \in 0..rq.max_retries :
            FailsThenSucceeds(k) =>
                /\ rq.attempts <= k + 1
                /\ rq.state \notin {"raised", "fell_through"}
                /\ rq.state = "returned" =>
                      /\ rq.attempts = k + 1
                      /\ rq.result = rq.script[k + 1]

\* 503, 503, 200: the 200 is returned after 3 attempts
C11_Witness ==
    /\ rq.state = "returned"
    /\ rq.script[1] = 503 /\ rq.script[2] = 503 /\ rq.script[3] = 200
    /\ rq.attempts = 3
    /\ rq.result = 200

\* C12: a non-retryable error status (a 4xx other than 429) ends the call
\* after exactly one attempt, with no backoff sleep and no retry.
C12_NoRetryOnClientError ==
    (/\ rq.state # "unused"
     /\ rq.script[1] \in 400..499
     /\ ~RetryableStatus(rq.script[1]))
    => /\ rq.attempts <= 1
       /\ rq.sleeps = 0
       /\ rq.state \in {"attempting", "raised"}

\* the wrapper calls suspended inside acquire or on the raw client
Suspended == {t \in Tasks : pc[t] \in {"sem_wait", "in_flight"} \cup Waiting}

C16_SameErrorReraised ==
    [][\A t \in Tasks :
          (pc[t] = "in_flight" /\ pc'[t] = "done" /\ last_error'.raw # <<>>)
          => /\ last_exit' = "raised"
             /\ last_error'.out = last_error'.raw
             /\ sem' = sem + 1]_vars

\* a wrapper call has ended with the raw client's ValueError
C16_Witness ==
    /\ last_exit = "raised"
    /\ last_error.raw \in Errors
    /\ last_error.raw.type = "ValueError"
    /\ last_error.out = last_error.raw

\* C13: for a list of texts longer than batch_size, the list returned has
\* the length of the input and its i-th element is the embedding of the i-th
\* text, in whatever order the sub-batch requests completed.
C13_EmbeddingOrder ==
    (emb.state = "returned" /\ Len(emb.texts) > emb.batch_size)
    => /\ Len(emb.out) = Len(emb.texts)
       /\ \A i \in 1..Len(emb.texts) : emb.out[i] = Embedding(emb.texts[i])

\* three sub-batches of different texts whose last request completed first
C13_Witness ==
    /\ emb.state = "returned"
    /\ Len(emb.batches) = 3
    /\ emb.completed = <<3, 1, 2>>
    /\ emb.batches[1] # emb.batches[3]
    /\ Len(emb.out) = Len(emb.texts)

\* C17: every request to the LLM provider is made through the rate
\* limiter, between an acquire and its release.
C17_AllRequestsLimited ==
    app.state # "unused" =>
        \A i \in DOMAIN app.requests : app.requests[i].limited

\* the period has the format YYYY-Q[1-4]
MatchesFormat(p) == PeriodShape(p, AsciiDigits)

\* C18: for a period of the format, when pipeline.run returns, the response
\* is 200 with the text of the pipeline and the period of the request.
C18_SuccessResponse ==
    (/\ app.state = "responded"
     /\ MatchesFormat(app.period)
     /\ app.outcome.kind = "returns")
    => /\ app.response.status = 200
       /\ app.response.formatted_context = app.outcome.text
       /\ app.response.period = app.period

\* C19: a period that is not of the format is answered 400 "Invalid period
\* format" and pipeline.run is never invoked for it.
C19_InvalidPeriodRejected ==
    (app.state # "unused" /\ ~MatchesFormat(app.period))
    => /\ ~app.run_invoked
       /\ app.state = "responded" =>
             /\ app.response.status = 400
             /\ app.response.detail[1] = "Invalid period format"

\* C20: for a period of the format, a ValueError of pipeline.run is answered
\* 400, an HTTPException with its own status, any other exception 500
\* "Internal server error".
C20_ErrorMapping ==
    (/\ app.state = "responded"
     /\ MatchesFormat(app.period)
     /\ app.outcome.kind = "raises")
    => /\ app.outcome.type = "ValueError" => app.response.status = 400
       /\ app.outcome.type = "HTTPException" =>
             app.response.status = app.outcome.status
       /\ app.outcome.type \notin {"ValueError", "HTTPException"} =>
             /\ app.response.status = 500
             /\ app.response.detail[1] = "Internal server error"

\* the positions of a call inside acquire
InAcquire == {"sem_wait"} \cup Waiting

\* C15: under fair scheduling, with time advancing and every admitted caller
\* releasing, every acquire call eventually returns.
C15_AcquireReturns ==
    \A t \in Tasks : (pc[t] \in InAcquire) ~> (pc[t] \notin InAcquire)

\* the wrapper calls that get through acquire in the step
Admitted(before, after) ==
    {t \in Tasks : before[t] # "in_flight" /\ after[t] = "in_flight"}

\* C25: a call waiting in an admission loop keeps its slot: the calls that
\* wait for admission or are in flight never number more than
\* max_concurrent_requests, and a caller gets past the semaphore only while
\* they number fewer.
C25_WaitersHoldSlot ==
    [][/\ Cardinality(Holders') <= config.max_concurrent_requests
       /\ \A t \in Tasks :
             (pc[t] \notin Holding /\ pc'[t] \in Holding)
             => Cardinality(Holders) < config.max_concurrent_requests]_vars

\* every slot is held, one of them by a call sleeping in an admission loop,
\* and a further caller waits for the semaphore
C25_Witness ==
    /\ Cardinality(Holders) = config.max_concurrent_requests
    /\ \E t \in Tasks : pc[t] \in {"rpm_sleep", "tpm_sleep"}
    /\ \E t \in Tasks : pc[t] = "sem_wait"

\* C27: a step appends one request timestamp for each acquire that returns
\* in it and none otherwise, and the acquire that returns has passed the
\* requests-per-minute check and, last, the tokens-per-minute check.
C27_OneTimestampPerAcquire ==
    [][/\ Len(admitted') = Len(admitted) + Cardinality(Admitted(pc, pc'))
       /\ Len(request_times') <= Len(request_times) + Cardinality(Admitted(pc, pc'))
       /\ \A t \in Admitted(pc, pc') :
             /\ request_times'[Len(request_times')] = now
             /\ TokenAdmits(get_usage_in_window(usage_history, now), est'[t])
             /\ \/ pc[t] = "tpm_sleep"
                \/ RateAdmits(PruneTimes(request_times,
                                         now - DEFAULT_WINDOW_SIZE))]_vars

\* one call has returned and one is in flight, each with its timestamp,
\* while a third, past the rate check, sleeps in the token wait with none
C27_Witness ==
    /\ Len(admitted) = 2
    /\ last_exit = "returned"
    /\ \E t \in Tasks : pc[t] = "in_flight"
    /\ \E t \in Tasks : pc[t] = "tpm_sleep"

\* C29: a wrapper call whose raw call raises frees its slot, schedules no
\* ledger write and leaves the ledger and the request window as they were:
\* the timestamp of its admission goes on counting against
\* requests_per_minute.
C29_FailureRecordsNothing ==
    [][\A t \in Tasks :
          (pc[t] = "in_flight" /\ pc'[t] = "done" /\ last_error'.raw # <<>>)
          => /\ sem' = sem + 1
             /\ pending' = pending
             /\ usage_history' = usage_history
             /\ request_times' = request_times]_vars

\* a call has failed: nothing is in the ledger or on its way there, and the
\* timestamp of the failed call fills the window
C29_Witness ==
    /\ last_exit = "raised"
    /\ usage_history = <<>>
    /\ pending = <<>>
    /\ Len(request_times) = 1
    /\ InWindowCount(request_times, now) = config.requests_per_minute

\* a token check ran in the step: a call left it for the raw call or for
\* the sleep of the token wait
TokenChecked(before, after, wakeBefore, wakeAfter) ==
    \E t \in Tasks :
        /\ before[t] \in {"new", "sem_wait"} \cup Waiting
        /\ after[t] \in {"in_flight", "tpm_sleep"}
        /\ after[t] # before[t] \/ wakeAfter[t] # wakeBefore[t]

\* C30: after get_usage_in_window has returned, the ledger holds no record
\* older than now - window_size.
C30_CheckPrunesLedger ==
    [][TokenChecked(pc, pc', wake, wake')
       => \A i \in DOMAIN usage_history' :
             usage_history'[i][1] >= now - DEFAULT_WINDOW_SIZE]_vars

\* C28: release with actual_tokens > 0 ends the call at once, having only
\* scheduled the ledger write, so a token check before the write does not
\* see it; the write, when it runs, adds one record of that value at the
\* current time, which the token check counts from then on; nothing but a
\* write or the passing of time changes the ledger; and every scheduled
\* write eventually runs.
C28_UsageEventuallyRecorded ==
    /\ [][/\ \A t \in Tasks :
                (pc[t] = "in_flight" /\ pc'[t] = "done" /\ pending' # pending)
                => /\ Len(pending') = Len(pending) + 1
                   /\ pending'[Len(pending')] > 0
                   /\ SubSeq(pending', 1, Len(pending)) = pending
                   /\ sem' = sem + 1
                   /\ usage_history' = usage_history
          /\ (pending # <<>> /\ pending' = Tail(pending))
                => /\ usage_history' # <<>>
                   /\ usage_history'[Len(usage_history')] = <<now, Head(pending)>>
                   /\ get_usage_in_window(usage_history', now)
                         = get_usage_in_window(usage_history, now) + Head(pending)
          /\ usage_history' # usage_history
                => \/ pending # <<>> /\ pending' = Tail(pending)
                   \/ /\ pc' = pc
                      /\ pending' = pending
                      /\ Len(usage_history') = Len(usage_history)]_vars
    /\ (pending # <<>>) ~> (pending = <<>>)

\* a call has returned, its usage is in the ledger and nothing is left to
\* write, while a second call, released after it, reported usage too
C28_Witness ==
    /\ last_exit = "returned"
    /\ pending = <<>>
    /\ Len(usage_history) = 2
    /\ usage_history[2][2] > 0

\* the provider HTTP requests in progress: one for each generate call in
\* flight, and the running sub-batch requests of the raw get_embeddings call
HttpInProgress ==
    Cardinality({t \in Tasks : pc[t] = "in_flight" /\ kind[t] = "generate"})
    + (IF emb.state \in {"single", "gathering"} THEN Cardinality(EmbRunning)
       ELSE 0)

SameKey(before, after, k) == Get(before, k, Absent) = Get(after, k, Absent)

\* validate_node returns in this step
ValidateReturns ==
    node.state = "called" /\ node.name = "validate" /\ node'.state = "returned"

\* revise_node returns in this step
ReviseReturns ==
    node.state = "called" /\ node.name = "revise" /\ node'.state = "returned"

\* C22: validate_node on a draft_context that parses as MarketContext sets
\* validated_context and final_context to the same parsed object and sets no
\* error; on one that does not parse it sets error to a message beginning
\* 'Schema validation failed' and leaves validated_context and final_context
\* as they were
C22_ValidateOutcome ==
    [][ValidateReturns =>
         LET before == node.input
             after == node'.output
             draft_context == Get(before, "draft_context", <<"dict">>)
         IN IF draft_context \in ValidDrafts
            THEN /\ after["validated_context"]
                       = <<"MarketContext", draft_context[2]>>
                 /\ after["final_context"] = after["validated_context"]
                 /\ SameKey(before, after, "error")
            ELSE /\ "error" \in DOMAIN after
                 /\ after["error"][1] = "Schema validation failed: "
                 /\ SameKey(before, after, "validated_context")
                 /\ SameKey(before, after, "final_context")]_vars

\* C23: when revise_node is given a validated_context and anything inside
\* the revision fails, it returns final_context equal to the original
\* validated_context and does not set error
C23_ReviseFallsBack ==
    [][(/\ ReviseReturns
        /\ \/ node'.outcome # "revised"
           \/ node.input["validated_context"] = None)
       => /\ node'.output["final_context"] = node.input["validated_context"]
          /\ SameKey(node.input, node'.output, "error")]_vars

C23_Witness ==
    /\ node.state = "returned"
    /\ node.name = "revise"
    /\ node.outcome = "not_json"
    /\ node.input["validated_context"] = <<"MarketContext", "given">>
    /\ "final_context" \notin DOMAIN node.input
    /\ node.output["final_context"] = <<"MarketContext", "given">>
    /\ "error" \notin DOMAIN node.output

\* C24: validate_node changes only validated_context, final_context and
\* error, revise_node only final_context: every other key of the incoming
\* state, custom keys included, is present and unchanged in the returned state
C24_OtherKeysKept ==
    [][/\ ValidateReturns =>
            /\ DOMAIN node.input \subseteq DOMAIN node'.output
            /\ \A k \in NodeKeys \ {"validated_context", "final_context",
                                    "error"} :
                  SameKey(node.input, node'.output, k)
       /\ ReviseReturns =>
            /\ DOMAIN node.input \subseteq DOMAIN node'.output
            /\ \A k \in NodeKeys \ {"final_context"} :
                  SameKey(node.input, node'.output, k)]_vars

C24_Witness ==
    /\ node.state = "returned"
    /\ node.name \in {"validate", "revise"}
    /\ "custom_field" \in DOMAIN node.input
    /\ "draft_context" \in DOMAIN node.input
    /\ node.output # node.input
    /\ node.output["custom_field"] = <<"custom_value">>
    /\ node.output["draft_context"] = node.input["draft_context"]

\* C21: GET /health responds 200 with status 'healthy' whenever the
\* pipeline's graph has been built, vector_store reported 'available' or
\* 'not_indexed' according to is_indexed, and 503 with reason 'Pipeline not
\* initialized' when the graph has not been built
C21_HealthResponse ==
    (app.state # "unused" /\ app.health # NoHealth)
    => IF app.graph
       THEN /\ app.health.status = 200
            /\ app.health.body["status"] = "healthy"
            /\ app.health.body["vector_store"]
                  = (IF app.indexed THEN "available" ELSE "not_indexed")
       ELSE /\ app.health.status = 503
            /\ app.health.body["reason"] = "Pipeline not initialized"

\* the timestamps of a sequence never decrease from the head on
OldestFirst(stamps) ==
    \A i, j \in DOMAIN stamps : i < j => stamps[i] <= stamps[j]

\* C31: the request timestamps and the usage ledger are always ordered
\* oldest first, under every interleaving of acquire and add_usage, so that
\* pruning from the head leaves no entry older than now - 60 s anywhere
C31_OldestFirst ==
    LET cutoff == now - DEFAULT_WINDOW_SIZE
        times == PruneTimes(request_times, cutoff)
        ledger == PruneUsage(usage_history, cutoff)
    IN /\ OldestFirst(request_times)
       /\ OldestFirst([i \in DOMAIN usage_history |-> usage_history[i][1]])
       /\ \A i \in DOMAIN times : times[i] >= cutoff
       /\ \A i \in DOMAIN ledger : ledger[i][1] >= cutoff

C31_Witness ==
    /\ Len(request_times) >= 2
    /\ Len(usage_history) >= 2
    /\ request_times[1] < now - DEFAULT_WINDOW_SIZE
    /\ usage_history[1][1] < usage_history[2][1]
    /\ PruneTimes(request_times, now - DEFAULT_WINDOW_SIZE) # <<>>
    /\ PruneTimes(request_times, now - DEFAULT_WINDOW_SIZE) # request_times

\* C32: whenever the requests-per-minute window is full, the wait computed
\* lies between SAFETY_MARGIN and WINDOW_SIZE + SAFETY_MARGIN, the zero-wait
\* yield branch is never taken, and when the waiter wakes after that wait
\* the timestamp that was oldest has left the window
C32_RateWaitBounds ==
    [][\A t \in Tasks :
          /\ pc'[t] # "rpm_yield"
          /\ (pc'[t] = "rpm_sleep" /\ (pc[t] # "rpm_sleep" \/ wake'[t] # wake[t]))
             => /\ Len(request_times') >= config.requests_per_minute
                /\ wake'[t] - now >= DEFAULT_SAFETY_MARGIN
                /\ wake'[t] - now <= DEFAULT_WINDOW_SIZE + DEFAULT_SAFETY_MARGIN
                /\ Head(request_times') < wake'[t] - DEFAULT_WINDOW_SIZE]_vars

C32_Witness ==
    \E t \in Tasks :
       /\ pc[t] = "rpm_sleep"
       /\ wake[t] = now + DEFAULT_SAFETY_MARGIN
       /\ request_times # <<>>
       /\ Head(request_times) = now - DEFAULT_WINDOW_SIZE

\* the calls in progress whose estimate is above tokens_per_minute and that
\* hold a slot, in the state given
OversizedHolders(pcs, ests) ==
    {t \in Tasks : ests[t] > config.tokens_per_minute /\ pcs[t] \in Holding}

\* C33: an acquire whose estimated_tokens is greater than tokens_per_minute
\* is never admitted, however much time passes and even with an empty
\* ledger: it stays in its waits holding its slot, and
\* max_concurrent_requests such calls leave no slot to any other caller
C33_OversizedBlocksForever ==
    [][/\ \A t \in OversizedHolders(pc', est') : pc'[t] \in Waiting
       /\ OversizedHolders(pc, est) \subseteq OversizedHolders(pc', est')
       /\ \A t \in OversizedHolders(pc, est) : est'[t] = est[t]
       /\ \A i \in DOMAIN admitted' :
             admitted'[i][2] <= config.tokens_per_minute
       /\ Cardinality(OversizedHolders(pc', est'))
             = config.max_concurrent_requests
          => /\ sem' = 0
             /\ Holders' = OversizedHolders(pc', est')]_vars

C33_Witness ==
    /\ Cardinality(OversizedHolders(pc, est)) = config.max_concurrent_requests
    /\ \A t \in OversizedHolders(pc, est) : pc[t] = "tpm_sleep"
    /\ usage_history = <<>>
    /\ now >= 2 * DEFAULT_WINDOW_SIZE
    /\ \E u \in Tasks : pc[u] = "sem_wait"

\* C34: in _request_with_retry a backoff sleep happens only between two
\* attempts: a call that made n attempts made exactly n-1 sleeps, it never
\* sleeps after its final attempt, the sleep after attempt k lasts between
\* base_backoff*2^k and base_backoff*2^k + 1 seconds, and the attempt
\* counter never exceeds max_retries
C34_SleepsBetweenAttempts ==
    rq.state # "unused" =>
       /\ rq.attempt <= rq.max_retries
       /\ rq.state \in {"attempting", "backoff", "returned", "raised"}
       /\ rq.state = "attempting" =>
             rq.attempts = rq.attempt /\ rq.sleeps = rq.attempt
       /\ rq.state = "backoff" =>
             /\ rq.attempt < rq.max_retries
             /\ rq.attempts = rq.attempt + 1
             /\ rq.sleeps = rq.attempts
             /\ rq.wait >= rq.base_backoff * 2^rq.attempt
             /\ rq.wait <= rq.base_backoff * 2^rq.attempt + 1
       /\ rq.state \in {"returned", "raised"} =>
             /\ rq.attempts = rq.attempt + 1
             /\ rq.sleeps = rq.attempts - 1

C34_Witness ==
    /\ rq.state = "raised"
    /\ rq.max_retries = 2
    /\ rq.attempts = 3
    /\ rq.sleeps = 2
    /\ rq.wait = 3

\* C35: get_embeddings with n texts and batch_size b >= 1 issues exactly one
\* request when n <= b and otherwise exactly ceil(n/b) requests, each
\* carrying at most b texts, the batches being consecutive slices that
\* together cover every input text exactly once in input order
C35_BatchSplit ==
    emb.state # "unused" =>
       LET n == Len(emb.texts)
           b == emb.batch_size
           k == Len(emb.batches)
           issued == EmbRunning \cup {emb.completed[i] : i \in DOMAIN emb.completed}
       IN /\ emb.state \in {"single", "gathering"} => issued = 1..k
          /\ n <= b => k = 1
          /\ n > b => (k - 1) * b < n /\ n <= k * b
          /\ \A j \in 1..k : Len(emb.batches[j]) <= b
          /\ \A j \in 1..k : \A i \in 1..Len(emb.batches[j]) :
                /\ (j - 1) * b + i <= n
                /\ emb.batches[j][i] = emb.texts[(j - 1) * b + i]
          /\ SumSeq([j \in 1..k |-> Len(emb.batches[j])]) = n

C35_Witness ==
    /\ emb.state = "gathering"
    /\ Len(emb.texts) = 4
    /\ emb.batch_size = 3
    /\ Len(emb.batches) = 2
    /\ Len(emb.batches[2]) = 1
    /\ Len(emb.completed) = 1

\* the run went through the graph and is over
RunOver == node.state \in {"run_raised", "run_returned"} /\ node.graph

\* the stage was executed in the run
Executed(stage) == \E i \in DOMAIN node.trace : node.trace[i] = stage

\* s is the beginning of t
IsPrefix(s, t) == Len(s) <= Len(t) /\ SubSeq(t, 1, Len(s)) = s

\* C36: in every pipeline run the stages execute in the order retrieve,
\* ingest, draft, validate, then revise only if after validate the state has
\* an error or has no validated_context, then output exactly once, then end;
\* when validation passed with no error set, revise is skipped and
\* final_context is the validated context
C36_StageOrder ==
    node.state \in {"in_graph", "run_raised", "run_returned"} =>
       LET head == <<"retrieve", "ingest", "draft", "validate">>
           revised == Executed("revise")
           full == head \o (IF revised THEN <<"revise">> ELSE <<>>)
                        \o <<"output">>
           checked == node.after_validate
       IN /\ IsPrefix(node.trace, full)
          /\ (node.stage = "END" \/ RunOver) => node.trace = full
          /\ Len(node.trace) > Len(head) =>
                /\ revised <=> \/ checked["error"] \notin {None, <<"">>}
                               \/ checked["validated_context"] = None
                /\ (checked["validated_context"] # None
                    /\ checked["error"] = None)
                   => /\ ~revised
                      /\ node.dict["final_context"]
                            = checked["validated_context"]

C36_Witness ==
    /\ node.state = "in_graph"
    /\ node.stage = "END"
    /\ node.indexed
    /\ node.trace = <<"retrieve", "ingest", "draft", "validate", "revise",
                      "output">>
    /\ node.dict["documents"] = <<"list", "searched">>

\* C37: run raises RuntimeError('Pipeline not initialized') when called
\* before the graph is built, raises RuntimeError carrying the error text
\* when the final state has an error, and otherwise returns the final
\* state's formatted_context; no stage ever clears an error once set, so an
\* error set by any stage always makes run raise
C37_RunOutcome ==
    /\ (node.state \notin {"unused", "run_called"} /\ ~node.graph)
       => /\ node.state = "run_raised"
          /\ node.value = <<"Pipeline not initialized">>
          /\ node.trace = <<>>
    /\ RunOver
       => /\ node.stage = "END"
          /\ IF node.dict["error"] # None
             THEN node.state = "run_raised" /\ node.value = node.dict["error"]
             ELSE /\ node.state = "run_returned"
                  /\ node.value = node.dict["formatted_context"]
    /\ (node.state \in {"in_graph", "run_raised", "run_returned"}
        /\ node.error_set)
       => /\ node.dict["error"] # None
          /\ node.state # "run_returned"

C37_Witness ==
    /\ node.state = "run_raised"
    /\ node.graph
    /\ ~node.indexed
    /\ node.error_set
    /\ node.value[1] = "Schema validation failed: "
    /\ node.dict["processed_data"] = <<"dict", "fetched">>

\* C38: whenever the revise stage executes in a pipeline run, that run ends
\* with run raising RuntimeError: revise is reached only when an error is
\* set or validated_context is absent, revise never clears the error, and a
\* run that reaches revise because validation failed passes a null
\* validated_context on to output
C38_ReviseMeansRaise ==
    (node.state \in {"in_graph", "run_raised", "run_returned"}
     /\ Executed("revise"))
    => /\ \/ node.after_validate["error"] # None
          \/ node.after_validate["validated_context"] = None
       /\ node.dict["error"] # None
       /\ node.dict["error"] = node.after_validate["error"]
       /\ node.state # "run_returned"
       /\ RunOver => node.state = "run_raised"
                     /\ node.value = node.after_validate["error"]
       /\ (node.after_validate["validated_context"] = None
           /\ Executed("output"))
          => node.into_output["validated_context"] = None

C38_Witness ==
    /\ node.state = "run_raised"
    /\ Executed("revise")
    /\ Executed("output")
    /\ node.into_output["validated_context"] = None
    /\ node.into_output["final_context"] = None
    /\ node.dict["formatted_context"]
          = <<"No market context available to format">>

====
